---- MODULE Spec2Model ----
(***************************************************************************)
(* Model of dailyemail/daily_scheduler.py: the daily topic e-mail job, the *)
(* Scheduler object with its polling thread, and the module-level          *)
(* operations start_daily_scheduler / stop_scheduler; and of the buttons   *)
(* of the control surface, dailyemail/frontend_schedular.py.               *)
(*                                                                         *)
(* Time is counted in ticks of one poll interval (time.sleep(60)); a day   *)
(* is shortened to TicksPerDay polls.  Interleaving points are the         *)
(* blocking calls of the code (sleep, the AI backend calls, the SMTP       *)
(* calls); straight-line code between two blocking calls is one step.      *)
(* Text is a sequence of tokens: " " is one whitespace character, "\"" and *)
(* "'" are the two quote characters, any other token is an opaque run of   *)
(* text without quotes that neither starts nor ends with whitespace.       *)
(***************************************************************************)
EXTENDS Integers, Sequences, FiniteSets, TLC

\* ----------------------------------------------------------------- bounds
MaxDays == 2
MaxSchedulers == 2
MaxThreads == 2
\* start_daily_scheduler calls made by the entry point of daily_scheduler.py
MaxStarts == 1
\* fires are counted up to FireCap: a count of FireCap stands for that or more
FireCap == 2

\* -------------------------------------------------------------- constants
SleepTicks == 1
FireTick == 2
\* the tick of the day that holds 1:00 PM, the time the docstring and the
\* messages of schedule_daily_email announce; it lies before the tick of 23:50
OnePM == 1
TicksPerDay == FireTick + 2
MaxTime == MaxDays * TicksPerDay

Dates == 0 .. (MaxDays - 1)
ThreadIds == 1 .. MaxThreads

DateOf(t) == t \div TicksPerDay
TimeOfDay(t) == t % TicksPerDay
FireTime(d) == d * TicksPerDay + FireTick

\* ------------------------------------------------------------------- text
RECURSIVE lstrip(_)
lstrip(s) == IF s # <<>> /\ Head(s) = " " THEN lstrip(Tail(s)) ELSE s

RECURSIVE rstrip(_)
rstrip(s) == IF s # <<>> /\ s[Len(s)] = " " THEN rstrip(SubSeq(s, 1, Len(s) - 1)) ELSE s

strip(s) == rstrip(lstrip(s))

replace(s, old) == SelectSeq(s, LAMBDA c : c # old)

\* -------------------------------------------------- results of Python calls
\* A call either returns a value or raises.
Ok(v) == [raised |-> FALSE, value |-> v]
RaiseText == [raised |-> TRUE, value |-> <<>>]
RaiseBool == [raised |-> TRUE, value |-> FALSE]

\* ------------------------------------------------------ DailyTopicGenerator
topics ==
  << "Artificial Intelligence in Healthcare",
     "Sustainable Technology Solutions",
     "Remote Work Best Practices in 2024",
     "Blockchain Beyond Cryptocurrency",
     "Cybersecurity Trends for Small Businesses",
     "The Future of Renewable Energy",
     "Mental Health in the Digital Age",
     "Space Technology and Commercialization",
     "Quantum Computing Applications",
     "Digital Marketing Strategies for 2024",
     "Climate Change and Technology Solutions",
     "The Metaverse and Virtual Reality",
     "Bioengineering and Medical Advancements",
     "5G and IoT Integration",
     "Sustainable Agriculture Technology" >>

FallbackList == { <<topics[i]>> : i \in 1 .. Len(topics) }

_fallback_topic_unlisted(pick) == <<"Lifelong Learning">>

\* random.choice(topics): pick is the index drawn
_fallback_topic(pick) == <<topics[pick]>>

\* Texts the AI backend may answer to the topic prompt (response.text)
TopicResponses ==
  { <<>>,
    <<"\"", " ", "'", "\"">>,
    <<" ", "\"", "Edge AI", "\"", " ">>,
    <<"Quantum Computing Applications">> }

\* Texts the AI backend may answer to the description prompt
DescResponses == { <<>>, <<" ", "A field worth a closer look.", " ">> }

\* Outcomes of model.generate_content(prompt) followed by response.text
BackendOutcomes(texts) == { Ok(t) : t \in texts } \cup { RaiseText }

generate_daily_topic_noexcept(model, backend, pick) ==
  IF ~model THEN Ok(_fallback_topic(pick))
  ELSE IF backend.raised THEN RaiseText
  ELSE Ok(strip(replace(replace(strip(backend.value), "\""), "'")))

generate_daily_topic(model, backend, pick) ==
  IF ~model THEN Ok(_fallback_topic(pick))
  ELSE IF backend.raised THEN Ok(_fallback_topic(pick))
  ELSE Ok(strip(replace(replace(strip(backend.value), "\""), "'")))

generate_topic_description_untopical(model, topic, backend) ==
  IF ~model \/ backend.raised
    THEN Ok(<<"Explore the latest developments and insights.">>)
    ELSE Ok(strip(backend.value))

generate_topic_description(model, topic, backend) ==
  IF ~model
    THEN Ok(<<"Explore the latest developments and insights about ">> \o topic \o <<".">>)
  ELSE IF backend.raised
    THEN Ok(<<"Explore the latest developments and insights about ">> \o topic
            \o <<". This topic offers great opportunities for learning and professional growth.">>)
  ELSE Ok(strip(backend.value))

\* Outcomes of the four transport calls of _send_email, in order:
\* SMTP_SSL(...) connect, server.login, server.send_message, and the QUIT
\* sent when the with-block is left.
ConnectOutcomes == {"ok", "fail"}
LoginOutcomes == {"ok", "fail"}
SendOutcomes == {"ok", "fail"}
QuitOutcomes == {"221", "other", "disconnected"}

\* The log of transport outcomes is complete: _send_email is about to return
SmtpComplete(log) ==
  \/ log # <<>> /\ log[Len(log)] = "fail"
  \/ Len(log) = 4

\* The body of the try block raised (a failed call, or a QUIT answered with
\* a code other than 221 on leaving the with-block)
SmtpRaised(log) ==
  \/ log[Len(log)] = "fail"
  \/ log[Len(log)] = "other"

ConnOpen_until_quit(log) == log # <<>> /\ log[1] = "ok" /\ Len(log) < 4

\* The connection opened by SMTP_SSL(...) is open: it is closed when the
\* with-block is left, on every path
ConnOpen(log) == log # <<>> /\ log[1] = "ok" /\ ~SmtpComplete(log)

_send_email_noexcept(log) == IF SmtpRaised(log) THEN RaiseBool ELSE Ok(TRUE)

_send_email(log) == IF SmtpRaised(log) THEN Ok(FALSE) ELSE Ok(TRUE)

\* send_daily_topic_email: body is the outcome of the statements inside its
\* try block (the value of success, or an exception); the function returns
\* success, and False when the body raised
send_daily_topic_email_reraise(body) ==
  IF body.raised \/ ~body.value THEN RaiseBool ELSE Ok(TRUE)

send_daily_topic_email(body) == IF body.raised THEN Ok(FALSE) ELSE Ok(body.value)

\* subject = f"... Your Daily Learning Topic: {topic}"
subject(topic) == <<"Your Daily Learning Topic: ">> \o topic

email_content_fixed(topic, description) ==
  <<"<html> ... <div class=topic>">> \o topic
    \o <<"</div><div class=description>">> \o <<"</div> ... </html>">>

\* email_content = f"""...{topic}...{description}...""": the HTML around the
\* two placeholders is fixed text
email_content(topic, description) ==
  <<"<html> ... <div class=topic>">> \o topic
    \o <<"</div><div class=description>">> \o description
    \o <<"</div> ... </html>">>

\* ---------------------------------------------------------------- schedule
\* schedule.every().day.at(...): the next run is the first occurrence of the
\* time of day that lies strictly after t
NextRunAfter(t) ==
  LET today == DateOf(t) * TicksPerDay + FireTick
  IN  IF today > t THEN today ELSE today + TicksPerDay

VARIABLES
  now,        \* the clock, in ticks since the process started
  hasModel,   \* GEMINI_API_KEY is set: DailyTopicGenerator.model is not None
  running,    \* running[s]: the flag self.running of Scheduler object s
  jobs,       \* schedule.jobs, the jobs registered with the default scheduler
  threads,    \* the threads started by start_scheduler
  fires,      \* history: fires[d] = calls of _send_scheduled_email on date d
  failed,     \* history: a fire of date d had a failed generation or send
  through,    \* history: some scheduler was RUNNING all through the fire tick of d
  phase,      \* history, per date: 1 fire completed, 2 then stopped, 3 then started
  caller,     \* the job run on the control surface's context (send_test_email)
  lastDone,   \* history: the last completed call of the caller's context
  scheduler_running,  \* st.session_state.scheduler_running of the control surface
  pv          \* the control surface's preview: its position, and whether
              \* st.session_state holds preview_topic / preview_description

schedVars == <<now, running, jobs, threads, fires, failed, through, phase>>
uiVars == <<scheduler_running, pv>>
vars == <<now, hasModel, running, jobs, threads, fires, failed, through,
          phase, caller, lastDone, scheduler_running, pv>>

\* ---------------------------------------------- one send_daily_topic_email
NoJob ==
  [pc |-> "none", resp |-> Ok(<<>>), topic |-> <<>>, desc |-> <<>>, genErr |-> FALSE,
   descErr |-> FALSE, msg |-> <<>>, smtp |-> <<>>, conn |-> FALSE,
   success |-> Ok(FALSE), result |-> Ok(FALSE)]

Return(j, res) == [j EXCEPT !.pc = "return", !.result = res]

\* generate_topic_description returned r
AfterDesc(j, r) ==
  IF r.raised THEN Return(j, send_daily_topic_email(RaiseBool))
  ELSE [j EXCEPT !.desc = r.value, !.pc = "smtp_connect",
                 !.msg = <<subject(j.topic), email_content(j.topic, r.value)>>]

\* generate_daily_topic returned r; without a model the description needs no
\* backend call either
AfterTopic(j, model, r) ==
  IF r.raised THEN Return(j, send_daily_topic_email(RaiseBool))
  ELSE IF model THEN [j EXCEPT !.topic = r.value, !.pc = "desc_call"]
  ELSE AfterDesc([j EXCEPT !.topic = r.value],
                 generate_topic_description(model, r.value, RaiseText))

\* send_daily_topic_email is entered
JobStart(model, pick) ==
  IF model THEN [NoJob EXCEPT !.pc = "topic_call"]
  ELSE AfterTopic(NoJob, model, generate_daily_topic(model, RaiseText, pick))

\* the backend call of generate_daily_topic ended with outcome backend
JobTopic(j, model, backend, pick) ==
  AfterTopic([j EXCEPT !.genErr = backend.raised, !.resp = backend], model,
             generate_daily_topic(model, backend, pick))

\* the backend call of generate_topic_description ended with outcome backend
JobDesc(j, model, backend) ==
  AfterDesc([j EXCEPT !.genErr = j.genErr \/ backend.raised,
                      !.descErr = backend.raised],
            generate_topic_description(model, j.topic, backend))

SmtpStage(log) ==
  CASE Len(log) = 0 -> "smtp_connect"
    [] Len(log) = 1 -> "smtp_login"
    [] Len(log) = 2 -> "smtp_send"
    [] OTHER -> "smtp_quit"

StageOutcomes(pc) ==
  CASE pc = "smtp_connect" -> ConnectOutcomes
    [] pc = "smtp_login" -> LoginOutcomes
    [] pc = "smtp_send" -> SendOutcomes
    [] OTHER -> QuitOutcomes

\* one transport call of _send_email ended with outcome o
JobSmtp(j, o) ==
  LET log == Append(j.smtp, o)
  IN  IF SmtpComplete(log)
        THEN Return([j EXCEPT !.smtp = log, !.conn = ConnOpen(log),
                              !.success = _send_email(log)],
                    send_daily_topic_email(_send_email(log)))
        ELSE [j EXCEPT !.smtp = log, !.conn = ConnOpen(log), !.pc = SmtpStage(log)]

InSmtp(j) == j.pc \in {"smtp_connect", "smtp_login", "smtp_send", "smtp_quit"}

\* the control surface before any preview: no preview_topic attribute yet
NoPreview == [pc |-> "none", shown |-> FALSE]

\* ------------------------------------------------------------- Scheduler
\* A poll thread keeps the control state of the job it runs; the texts of a
\* scheduled job, and which of its backend calls failed, never reach the
\* scheduler and are dropped.
Control(j) ==
  [j EXCEPT !.resp = Ok(<<>>), !.topic = <<>>, !.desc = <<>>, !.descErr = FALSE,
            !.msg = <<>>]

Idle ==
  [pc |-> "idle", sched |-> 0, wake |-> 0, pending |-> <<>>, stopSeen |-> FALSE,
   job |-> NoJob]

AnyRunning(r) == \E s \in 1 .. Len(r) : r[s]

Live(i) == threads[i].pc # "idle"

HasFreeSlot == \E i \in ThreadIds : ~Live(i)
FreeSlot == CHOOSE i \in ThreadIds : ~Live(i) /\ \A k \in 1 .. (i - 1) : Live(k)

\* threading.Thread(target=run_scheduler).start()
Spawn(s) ==
  [threads EXCEPT ![FreeSlot] = [Idle EXCEPT !.pc = "sleep", !.sched = s, !.wake = now]]

\* Job.should_run of job k at time t
should_run(k, t) == t >= jobs[k].next_run

\* sorted(runnable_jobs): by next_run, equal ones in the order of registration
RECURSIVE SortJobs(_)
SortJobs(S) ==
  IF S = {} THEN <<>>
  ELSE LET k == CHOOSE x \in S : \A y \in S :
                  \/ jobs[x].next_run < jobs[y].next_run
                  \/ jobs[x].next_run = jobs[y].next_run /\ x <= y
       IN  <<k>> \o SortJobs(S \ {k})

Runnable(t) == SortJobs({k \in 1 .. Len(jobs) : should_run(k, t)})

\* the fire tick of a date counts as run through while some scheduler is RUNNING
Through(r, t) ==
  IF t = FireTime(DateOf(t)) /\ ~AnyRunning(r)
    THEN [through EXCEPT ![DateOf(t)] = FALSE]
    ELSE through

Init ==
  /\ now = 0
  /\ hasModel \in BOOLEAN
  /\ running = <<>>
  /\ jobs = <<>>
  /\ threads = [i \in ThreadIds |-> Idle]
  /\ fires = [d \in Dates |-> 0]
  /\ failed = [d \in Dates |-> FALSE]
  /\ through = [d \in Dates |-> FALSE]
  /\ phase = 0
  /\ caller = NoJob
  /\ lastDone = NoJob
  /\ scheduler_running = FALSE
  /\ pv = NoPreview

\* schedule.every().day.at("23:50:00").do(self._send_scheduled_email)
schedule_daily_email(s) == Append(jobs, [owner |-> s, next_run |-> NextRunAfter(now)])

\* Scheduler.start_scheduler on the existing Scheduler s
start_scheduler(s) ==
  /\ s \in 1 .. Len(running)
  /\ HasFreeSlot
  /\ running' = [running EXCEPT ![s] = TRUE]
  /\ threads' = Spawn(s)
  /\ phase' = IF phase = 2 THEN 3 ELSE phase
  /\ UNCHANGED <<uiVars, now, hasModel, jobs, fires, failed, through, caller, lastDone>>

\* start_daily_scheduler(): a new Scheduler, its job, its thread
StartDaily ==
  /\ Len(running) < MaxSchedulers
  /\ HasFreeSlot
  /\ running' = Append(running, TRUE)
  /\ jobs' = schedule_daily_email(Len(running) + 1)
  /\ threads' = Spawn(Len(running) + 1)
  /\ phase' = IF phase = 2 THEN 3 ELSE phase
  /\ UNCHANGED <<now, hasModel, fires, failed, through, caller, lastDone>>

\* start_daily_scheduler() called from the module or the entry point
start_daily_scheduler == StartDaily /\ UNCHANGED uiVars

stop_scheduler_interrupting(s) ==
  /\ s \in 1 .. Len(running)
  /\ running' = [running EXCEPT ![s] = FALSE]
  /\ threads' = [i \in ThreadIds |->
                   IF threads[i].sched = s THEN Idle ELSE threads[i]]
  /\ phase' = IF phase = 1 /\ running[s] THEN 2 ELSE phase
  /\ through' = Through(running', now)
  /\ UNCHANGED <<uiVars, now, hasModel, jobs, fires, failed, caller, lastDone>>

\* Scheduler.stop_scheduler on Scheduler s
stop_scheduler(s) ==
  /\ s \in 1 .. Len(running)
  /\ running' = [running EXCEPT ![s] = FALSE]
  /\ threads' = [i \in ThreadIds |->
                   IF running[s] /\ threads[i].sched = s /\ threads[i].pc = "sleep"
                     THEN [threads[i] EXCEPT !.stopSeen = TRUE]
                     ELSE threads[i]]
  /\ phase' = IF phase = 1 /\ running[s] THEN 2 ELSE phase
  /\ through' = Through(running', now)
  /\ UNCHANGED <<uiVars, now, hasModel, jobs, fires, failed, caller, lastDone>>

\* _send_scheduled_email is called at time t
_send_scheduled_email(t) == [fires EXCEPT ![DateOf(t)] = IF @ < FireCap THEN @ + 1 ELSE @]

\* run_scheduler after schedule.run_pending() returned: time.sleep(60)
Sleep(th) ==
  [th EXCEPT !.pc = "sleep", !.wake = now + SleepTicks, !.pending = <<>>,
             !.stopSeen = FALSE, !.job = NoJob]

\* Job.run after job_func returned: the job is scheduled for its next run
Reschedule(k) == [jobs EXCEPT ![k].next_run = NextRunAfter(now)]

\* A thread enters send_daily_topic_email.  The topic drawn by random.choice
\* is a text, which Control drops, so one draw stands for all of them.
ThreadJobStart == Control(JobStart(hasModel, 1))

\* the job of thread i moved to j2; when send_daily_topic_email returned, the
\* job is rescheduled and run_pending goes on to the next job of its list
ThreadAdvance(i, j2) ==
  LET th == threads[i]
      rest == Tail(th.pending)
  IN  IF j2.pc # "return"
        THEN /\ threads' = [threads EXCEPT ![i].job = Control(j2)]
             /\ UNCHANGED <<jobs, fires, failed, phase>>
      ELSE IF j2.result.raised
        THEN \* the exception leaves run_pending and ends the thread
             /\ threads' = [threads EXCEPT ![i] = Idle]
             /\ failed' = [failed EXCEPT ![DateOf(now)] = TRUE]
             /\ UNCHANGED <<jobs, fires, phase>>
      ELSE /\ jobs' = Reschedule(Head(th.pending))
           /\ failed' = IF j2.genErr \/ ~j2.result.value
                          THEN [failed EXCEPT ![DateOf(now)] = TRUE]
                          ELSE failed
           /\ phase' = IF phase = 0 THEN 1 ELSE phase
           /\ IF rest = <<>>
                THEN /\ threads' = [threads EXCEPT ![i] = Sleep(th)]
                     /\ UNCHANGED fires
                ELSE /\ threads' = [threads EXCEPT ![i].pending = rest,
                                                   ![i].job = ThreadJobStart]
                     /\ fires' = _send_scheduled_email(now)

\* run_scheduler: the thread leaves time.sleep, tests self.running and calls
\* schedule.run_pending()
Poll(i) ==
  /\ threads[i].pc = "sleep"
  /\ now >= threads[i].wake
  /\ IF ~running[threads[i].sched]
       THEN /\ threads' = [threads EXCEPT ![i] = Idle]
            /\ UNCHANGED fires
     ELSE IF Runnable(now) = <<>>
       THEN /\ threads' = [threads EXCEPT ![i] = Sleep(threads[i])]
            /\ UNCHANGED fires
     ELSE /\ threads' = [threads EXCEPT ![i].pc = "job",
                                          ![i].pending = Runnable(now),
                                          ![i].stopSeen = FALSE,
                                          ![i].job = ThreadJobStart]
          /\ fires' = _send_scheduled_email(now)
  /\ UNCHANGED <<uiVars, now, hasModel, running, jobs, failed, through, phase,
                 caller, lastDone>>

\* the backend call of generate_daily_topic returns in thread i
TopicReturn(i) ==
  /\ threads[i].pc = "job"
  /\ threads[i].job.pc = "topic_call"
  /\ \E backend \in BackendOutcomes(TopicResponses) :
       ThreadAdvance(i, JobTopic(threads[i].job, hasModel, backend, 1))
  /\ UNCHANGED <<uiVars, now, hasModel, running, through, caller, lastDone>>

\* the backend call of generate_topic_description returns in thread i
DescReturn(i) ==
  /\ threads[i].pc = "job"
  /\ threads[i].job.pc = "desc_call"
  /\ \E backend \in BackendOutcomes(DescResponses) :
       ThreadAdvance(i, JobDesc(threads[i].job, hasModel, backend))
  /\ UNCHANGED <<uiVars, now, hasModel, running, through, caller, lastDone>>

\* a transport call of _send_email returns in thread i
SmtpReturn(i) ==
  /\ threads[i].pc = "job"
  /\ InSmtp(threads[i].job)
  /\ \E o \in StageOutcomes(threads[i].job.pc) :
       ThreadAdvance(i, JobSmtp(threads[i].job, o))
  /\ UNCHANGED <<uiVars, now, hasModel, running, through, caller, lastDone>>

\* the clock advances by one poll interval; threads wake on time and a job
\* in progress finishes within the interval
Tick ==
  /\ now + 1 < MaxTime
  /\ \A i \in ThreadIds : Live(i) => threads[i].pc = "sleep" /\ threads[i].wake > now
  /\ now' = now + 1
  /\ through' = IF now' = FireTime(DateOf(now'))
                  THEN [through EXCEPT ![DateOf(now')] = AnyRunning(running)]
                  ELSE through
  /\ phase' = IF DateOf(now') # DateOf(now) THEN 0 ELSE phase
  /\ UNCHANGED <<uiVars, hasModel, running, jobs, threads, fires, failed,
                 caller, lastDone>>

Next ==
  \/ start_daily_scheduler
  \/ \E s \in 1 .. MaxSchedulers : start_scheduler(s)
  \/ \E s \in 1 .. MaxSchedulers : stop_scheduler(s)
  \/ \E i \in ThreadIds : Poll(i)
  \/ \E i \in ThreadIds : TopicReturn(i)
  \/ \E i \in ThreadIds : DescReturn(i)
  \/ \E i \in ThreadIds : SmtpReturn(i)
  \/ Tick

Spec == Init /\ [][Next]_vars

\* -------------------------------------------------- the program run as a script
\* __main__: start_daily_scheduler(), then the main thread only sleeps
main == Len(running) < MaxStarts /\ start_daily_scheduler

MainNext ==
  \/ main
  \/ \E i \in ThreadIds : Poll(i)
  \/ \E i \in ThreadIds : TopicReturn(i)
  \/ \E i \in ThreadIds : DescReturn(i)
  \/ \E i \in ThreadIds : SmtpReturn(i)
  \/ Tick

SpecMain == Init /\ [][MainNext]_vars

\* __main__ until KeyboardInterrupt, whose handler calls stop_scheduler()
StopNext ==
  \/ main
  \/ \E s \in 1 .. MaxSchedulers : stop_scheduler(s)
  \/ \E i \in ThreadIds : Poll(i)
  \/ \E i \in ThreadIds : TopicReturn(i)
  \/ \E i \in ThreadIds : DescReturn(i)
  \/ \E i \in ThreadIds : SmtpReturn(i)
  \/ Tick

SpecStop == Init /\ [][StopNext]_vars

\* ------------------------------------------- the job on the caller's context
\* the job of the caller moved to j2
CallerAdvance(j2) ==
  IF j2.pc = "return"
    THEN caller' = NoJob /\ lastDone' = j2
    ELSE caller' = j2 /\ UNCHANGED lastDone

send_test_email_as_fire ==
  /\ caller.pc = "none"
  /\ \E pick \in 1 .. Len(topics) :
       LET j2 == JobStart(hasModel, pick)
       IN  IF j2.pc = "return"
             THEN caller' = NoJob /\ lastDone' = j2
             ELSE caller' = j2 /\ lastDone' = NoJob
  /\ jobs' = [k \in 1 .. Len(jobs) |-> [jobs[k] EXCEPT !.next_run = NextRunAfter(now)]]
  /\ fires' = _send_scheduled_email(now)
  /\ UNCHANGED <<hasModel, now, running, threads, failed, through, phase, uiVars>>

\* send_test_email(): a fresh DailyTopicGenerator runs send_daily_topic_email
send_test_email ==
  /\ caller.pc = "none"
  /\ \E pick \in 1 .. Len(topics) :
       LET j2 == JobStart(hasModel, pick)
       IN  IF j2.pc = "return"
             THEN caller' = NoJob /\ lastDone' = j2
             ELSE caller' = j2 /\ lastDone' = NoJob
  /\ UNCHANGED <<hasModel, schedVars, uiVars>>

\* the backend call of generate_daily_topic returns to the caller
CallerTopic ==
  /\ caller.pc = "topic_call"
  /\ \E backend \in BackendOutcomes(TopicResponses), pick \in 1 .. Len(topics) :
       CallerAdvance(JobTopic(caller, hasModel, backend, pick))
  /\ UNCHANGED <<hasModel, schedVars, uiVars>>

\* the backend call of generate_topic_description returns to the caller
CallerDesc ==
  /\ caller.pc = "desc_call"
  /\ \E backend \in BackendOutcomes(DescResponses) :
       CallerAdvance(JobDesc(caller, hasModel, backend))
  /\ UNCHANGED <<hasModel, schedVars, uiVars>>

\* a transport call of _send_email returns to the caller
CallerSmtp ==
  /\ InSmtp(caller)
  /\ \E o \in StageOutcomes(caller.pc) : CallerAdvance(JobSmtp(caller, o))
  /\ UNCHANGED <<hasModel, schedVars, uiVars>>

JobNext == send_test_email \/ CallerTopic \/ CallerDesc \/ CallerSmtp

SpecJob == Init /\ [][JobNext]_vars

\* test sends made while the daily scheduler runs
TestNext ==
  \/ main
  \/ \E i \in ThreadIds : Poll(i)
  \/ \E i \in ThreadIds : TopicReturn(i)
  \/ \E i \in ThreadIds : DescReturn(i)
  \/ \E i \in ThreadIds : SmtpReturn(i)
  \/ Tick
  \/ send_test_email
  \/ CallerTopic
  \/ CallerDesc
  \/ CallerSmtp

SpecTest == Init /\ [][TestNext]_vars

\* ------------------------------------ the control surface: Start and Stop
\* the button "Start Scheduler", offered while the session flag is False: a
\* thread sets the flag and calls start_daily_scheduler()
ui_start ==
  /\ ~scheduler_running
  /\ scheduler_running' = TRUE
  /\ StartDaily
  /\ UNCHANGED pv

\* the button "Stop Scheduler", offered while the session flag is True: it
\* clears the flag and calls nothing
ui_stop ==
  /\ scheduler_running
  /\ scheduler_running' = FALSE
  /\ UNCHANGED <<hasModel, schedVars, caller, lastDone, pv>>

UiNext ==
  \/ ui_start
  \/ ui_stop
  \/ \E i \in ThreadIds : Poll(i)
  \/ \E i \in ThreadIds : TopicReturn(i)
  \/ \E i \in ThreadIds : DescReturn(i)
  \/ \E i \in ThreadIds : SmtpReturn(i)
  \/ Tick

SpecUi == Init /\ [][UiNext]_vars

\* --------------------------------------- the control surface: topic preview
\* The preview keeps its position and whether the session holds a
\* preview_topic and a preview_description; the texts never reach the
\* scheduler and are dropped, as in Control.
\* "Generate Preview" with a generator that needs no backend call
PreviewLocal(pick) ==
  LET topic == generate_daily_topic(FALSE, RaiseText, pick)
      desc == IF topic.raised THEN topic
              ELSE generate_topic_description(FALSE, topic.value, RaiseText)
  IN  IF desc.raised THEN pv ELSE [pv EXCEPT !.shown = TRUE]

preview_click_registering ==
  /\ pv.pc = "none"
  /\ Len(jobs) < MaxSchedulers
  /\ \E pick \in 1 .. Len(topics) :
       pv' = IF hasModel THEN [pv EXCEPT !.pc = "topic_call"] ELSE PreviewLocal(pick)
  /\ jobs' = schedule_daily_email(1)
  /\ UNCHANGED <<hasModel, now, running, threads, fires, failed, through, phase,
                 caller, lastDone, scheduler_running>>

\* the button "Generate Preview": a fresh DailyTopicGenerator, then
\* generate_daily_topic and generate_topic_description on the script's context
preview_click ==
  /\ pv.pc = "none"
  /\ \E pick \in 1 .. Len(topics) :
       pv' = IF hasModel THEN [pv EXCEPT !.pc = "topic_call"] ELSE PreviewLocal(pick)
  /\ UNCHANGED <<hasModel, schedVars, caller, lastDone, scheduler_running>>

\* the backend call of generate_daily_topic returns to the preview; an
\* exception would end the script run
PreviewTopic ==
  /\ pv.pc = "topic_call"
  /\ \E backend \in BackendOutcomes(TopicResponses), pick \in 1 .. Len(topics) :
       pv' = IF generate_daily_topic(hasModel, backend, pick).raised
               THEN [pv EXCEPT !.pc = "none"]
               ELSE [pv EXCEPT !.pc = "desc_call"]
  /\ UNCHANGED <<hasModel, schedVars, caller, lastDone, scheduler_running>>

\* the backend call of generate_topic_description returns to the preview,
\* which stores preview_topic and preview_description in the session
PreviewDesc ==
  /\ pv.pc = "desc_call"
  /\ \E backend \in BackendOutcomes(DescResponses) :
       pv' = IF generate_topic_description(hasModel, <<>>, backend).raised
               THEN [pv EXCEPT !.pc = "none"]
               ELSE [pc |-> "none", shown |-> TRUE]
  /\ UNCHANGED <<hasModel, schedVars, caller, lastDone, scheduler_running>>

\* the preview used while the daily scheduler runs
PreviewNext ==
  \/ main
  \/ \E i \in ThreadIds : Poll(i)
  \/ \E i \in ThreadIds : TopicReturn(i)
  \/ \E i \in ThreadIds : DescReturn(i)
  \/ \E i \in ThreadIds : SmtpReturn(i)
  \/ Tick
  \/ preview_click
  \/ PreviewTopic
  \/ PreviewDesc

SpecPreview == Init /\ [][PreviewNext]_vars

\* ------------------------------------------------------------------ claims
LiveThreads == {i \in ThreadIds : Live(i)}

\* thread i enters _send_scheduled_email in this step
FiresIn(i) ==
  /\ threads'[i].pc = "job"
  /\ \/ threads[i].pc = "sleep"
     \/ threads[i].pc = "job" /\ Len(threads'[i].pending) < Len(threads[i].pending)

\* C1: on every calendar date the scheduler invokes the daily job at most
\* once, whatever the sequence of start, stop, poll and clock events.
C1_AtMostOneFirePerDate == \A d \in Dates : fires[d] <= 1

\* C2: a start call made while the state is already RUNNING is a no-op: it
\* registers no second job and starts no second poll loop.
C2_SecondStartIsNoOp ==
  [][(\/ AnyRunning(running) /\ start_daily_scheduler
      \/ \E s \in 1 .. Len(running) : running[s] /\ start_scheduler(s))
     => UNCHANGED <<jobs, threads>>]_vars

\* C3: a poll loop that was asleep when stop_scheduler() was called exits at
\* its next wake, whatever calls were made in between.
C3_StoppedLoopExitsAtNextWake ==
  [][\A i \in ThreadIds :
       (threads[i].stopSeen /\ threads[i].pc = "sleep" /\ threads'[i] # threads[i])
       => threads'[i].pc = "idle"]_vars

\* C4: on every date whose fire time is passed with the scheduler RUNNING
\* throughout, exactly one fire is attempted.
C4_ExactlyOneFirePerRunningDate ==
  \A d \in Dates : (through[d] /\ now > FireTime(d)) => fires[d] = 1

\* C5: once a fire of the date has completed and the scheduler has then been
\* stopped and started again on that date, no further fire starts on it.
C5_NoSecondFireAfterRestart ==
  [][phase = 3 => \A i \in ThreadIds : ~FiresIn(i)]_vars

\* C6: a failed generation or a failed send in the fire of date d ends no poll
\* loop and stops no scheduler, and a fire is attempted on date d+1.
C6_FailureDoesNotStopLoop ==
  \A d \in Dates :
    failed[d] =>
      /\ \A s \in 1 .. Len(running) :
           running[s] /\ \E i \in LiveThreads : threads[i].sched = s
      /\ (d + 1 \in Dates /\ now > FireTime(d + 1)) => fires[d + 1] >= 1

C6_Witness == failed[0] /\ now > FireTime(1) /\ fires[1] >= 1

\* C7: in a fire, when a backend call of a generation step ends, by an answer
\* or by an error, the same invocation goes on to the next generation step
\* or to the send step: nothing is raised and the send is not skipped.
C7_GenerationNeverAbortsSend ==
  [][\A i \in ThreadIds :
       (/\ threads[i].pc = "job"
        /\ threads[i].job.pc \in {"topic_call", "desc_call"}
        /\ threads'[i] # threads[i])
       => /\ threads'[i].pc = "job"
          /\ threads'[i].pending = threads[i].pending
          /\ threads'[i].job.pc \in {"desc_call", "smtp_connect"}
          /\ threads'[i].job.pc # threads[i].job.pc]_vars

C7_Witness ==
  \E i \in ThreadIds :
    threads[i].pc = "job" /\ threads[i].job.genErr /\ threads[i].job.pc = "smtp_connect"

SmtpFailure(log) == \E k \in 1 .. Len(log) : log[k] \in {"fail", "other"}

\* C8: _send_email never raises, returns False on every failed transport
\* call, and returns True only when login and transmission both succeeded.
C8_SendEmailReturnsFalseOnFailure ==
  (lastDone.pc = "return" /\ lastDone.smtp # <<>>) =>
    /\ ~lastDone.success.raised
    /\ SmtpFailure(lastDone.smtp) => lastDone.success.value = FALSE
    /\ lastDone.success.value =>
         /\ Len(lastDone.smtp) >= 3
         /\ lastDone.smtp[2] = "ok"
         /\ lastDone.smtp[3] = "ok"

C8_Witness ==
  /\ lastDone.pc = "return"
  /\ lastDone.smtp = <<"ok", "fail">>
  /\ lastDone.success = Ok(FALSE)

\* C9: without an AI backend (model is None) every topic generated is one of
\* the fallback topics, of which there are at least 15.
C9_NoModelTopicIsFallback ==
  /\ Cardinality(FallbackList) >= 15
  /\ ~hasModel =>
       /\ caller.pc # "none" => caller.topic \in FallbackList
       /\ lastDone.pc = "return" => lastDone.topic \in FallbackList

C9_Witness ==
  ~hasModel /\ caller.pc = "smtp_connect" /\ caller.topic = <<topics[Len(topics)]>>

OnlyQuotesAndSpace(text) == \A k \in 1 .. Len(text) : text[k] \in {" ", "\"", "'"}

\* C10: with an AI backend, a topic call that fails, by an error or by an
\* answer that is empty or only quotes and whitespace, yields a fallback topic.
C10_FailedTopicCallIsFallback ==
  (/\ hasModel
   /\ caller.pc \notin {"none", "topic_call"}
   /\ caller.resp.raised \/ OnlyQuotesAndSpace(caller.resp.value))
  => caller.topic \in FallbackList

\* C11: the preview (generate_daily_topic, then generate_topic_description, as
\* the control surface calls them) leaves the schedule state unchanged: the
\* running flags, the registered jobs and their fire times, the record of the
\* fires of each date and the poll threads, whatever the poll loop is doing.
C11_PreviewLeavesScheduleState ==
  [][pv' # pv => UNCHANGED <<running, jobs, fires, threads>>]_vars

\* a preview is between its two backend calls, an earlier one completed,
\* while a poll thread is inside the job of the day
C11_Witness ==
  pv.pc = "desc_call" /\ pv.shown /\ \E i \in ThreadIds : threads[i].pc = "job"

\* text s contains text sub verbatim
Contains(s, sub) ==
  \E i \in 0 .. (Len(s) - Len(sub)) : SubSeq(s, i + 1, i + Len(sub)) = sub

\* the message of job j carries the topic and the description of job j
Composed(j) ==
  /\ Len(j.msg) = 2
  /\ Contains(j.msg[1], j.topic)
  /\ j.msg[1] # j.topic
  /\ Contains(j.msg[2], j.topic)
  /\ Contains(j.msg[2], j.desc)

\* C12: whenever send_daily_topic_email hands a message to _send_email, the
\* body of the message contains the topic and the description generated in
\* this invocation verbatim, and the subject embeds the topic.
C12_MessageCarriesTopicAndDescription ==
  /\ InSmtp(caller) => Composed(caller)
  /\ lastDone.smtp # <<>> => Composed(lastDone)

\* a message with a topic and a description answered by the backend is on
\* its way
C12_Witness ==
  /\ caller.pc = "smtp_send"
  /\ caller.topic = <<"Edge AI">>
  /\ caller.desc = <<"A field worth a closer look.">>

\* C13: the daily job is scheduled for 1:00 PM: a poll thread enters the job
\* of the day only at a wake in the tick of 13:00 (the loop wakes in every
\* tick, so the first wake at or after 13:00 lies in that tick).
C13_FiresAtOnePM ==
  [][\A i \in ThreadIds : FiresIn(i) => TimeOfDay(now) = OnePM]_vars

\* C14: no two invocations of the job run at the same time, whatever the
\* sequence of start and stop calls: at most one thread is inside
\* _send_scheduled_email in any state.
C14_NoConcurrentInvocations ==
  Cardinality({i \in ThreadIds : threads[i].pc = "job"}) <= 1

\* C15: no retry.  Inside one invocation the transport calls of the single
\* dispatch attempt follow one another and the attempt is never begun again;
\* and once the send of the fire of a date has failed, no thread enters the job
\* again on that date.  (Without a model no generation step can fail, so
\* failed[d] then records a failed send.)
C15_NoRetry ==
  [][/\ \A i \in ThreadIds :
          (/\ threads[i].pc = "job" /\ InSmtp(threads[i].job)
           /\ threads'[i] # threads[i]
           /\ threads'[i].pc = "job" /\ threads'[i].pending = threads[i].pending)
          => Len(threads'[i].job.smtp) = Len(threads[i].job.smtp) + 1
     /\ (~hasModel /\ failed[DateOf(now)]) => \A i \in ThreadIds : ~FiresIn(i)]_vars

\* thread i is inside an invocation of the job whose scheduler is STOPPED
StoppedInFlight(i) == threads[i].pc = "job" /\ ~running[threads[i].sched]

C17_ConnectionClosedOnReturn ==
  /\ ~InSmtp(caller) => ~caller.conn
  /\ lastDone.pc = "return" => ~lastDone.conn

\* _send_email returned by its except branch after its connection had been
\* opened and the transmission failed
C17_Witness ==
  /\ lastDone.pc = "return"
  /\ lastDone.smtp = <<"ok", "ok", "fail">>
  /\ ~lastDone.success.value

\* the description of job j was produced without an answer of the backend
DescFailed(j) == j.msg # <<>> /\ (~hasModel \/ j.descErr)

\* C18 as stated: for the same topic every failing call of
\* generate_topic_description returns the same sentence, be it that no backend
\* is configured or that the backend call raised: the description of a
\* failing call is the sentence of either kind of failure for its topic.
C18_SameSentenceOnEveryFailure ==
  \A j \in {caller, lastDone} :
    DescFailed(j) =>
      /\ j.desc = generate_topic_description(FALSE, j.topic, RaiseText).value
      /\ j.desc = generate_topic_description(TRUE, j.topic, RaiseText).value

NotConfiguredSentence(topic) ==
  <<"Explore the latest developments and insights about ">> \o topic \o <<".">>

RaisedSentence(topic) ==
  <<"Explore the latest developments and insights about ">> \o topic
    \o <<". This topic offers great opportunities for learning and professional growth.">>

\* C18, amended: a failing call returns a fixed sentence around the topic, one
\* sentence per kind of failure: the short one when no backend is configured,
\* the long one when the backend call raised.
C18_SameSentencePerKindOfFailure ==
  \A j \in {caller, lastDone} :
    DescFailed(j) =>
      /\ Contains(j.desc, j.topic)
      /\ j.desc = IF hasModel THEN RaisedSentence(j.topic)
                  ELSE NotConfiguredSentence(j.topic)

\* the backend answered the topic prompt and raised on the description prompt
C18_Witness ==
  /\ hasModel
  /\ caller.pc = "smtp_connect"
  /\ caller.descErr
  /\ caller.topic = <<"Edge AI">>

\* C19: the status shown by the control surface agrees with the core: in
\* every state where the session flag scheduler_running is False no Scheduler
\* started by the control surface is RUNNING and no poll thread is left, and
\* no step from such a state enters the job.
C19_StatusAgreesWithCore ==
  [][~scheduler_running =>
       /\ ~AnyRunning(running)
       /\ LiveThreads = {}
       /\ \A i \in ThreadIds : ~FiresIn(i)]_vars

\* C20: send_test_email() runs one generate, compose, send sequence on the
\* caller's context and leaves the scheduler alone: no step of a test send
\* changes a running flag, a registered job or its next run, a poll thread or
\* the count of the fires of a date, so a test send is not a fire and neither
\* adds nor suppresses one.
C20_TestSendLeavesScheduler ==
  [][(caller' # caller \/ lastDone' # lastDone)
       => UNCHANGED <<now, running, jobs, threads, fires>>]_vars

\* a test send is inside its transport calls while a poll thread runs the
\* fire of the same date
C20_Witness ==
  /\ caller.pc = "smtp_send"
  /\ \E i \in ThreadIds : threads[i].pc = "job" /\ InSmtp(threads[i].job)
  /\ fires[DateOf(now)] = 1
====
